---- MODULE Spec2Model ----
(***************************************************************************)
(* A model of the semantic-layer SQL compiler of tidor_code.py:            *)
(* _parse_date_trunc, _get_definition, _find_join_definition and           *)
(* generate_sql_query; and of its collaborators of extra_work: the         *)
(* RateLimiter of cache_llm.py and generate of natural_lang_to_json.py     *)
(* with its JSONCacheAsync.                                                *)
(*                                                                         *)
(* Text.  A Python str is modelled as a sequence of lexemes (TLA+ strings):*)
(* f-strings and "+" are \o, str.join is JoinText.  The grain suffixes are *)
(* spelled character by character, so that endswith and replace work on    *)
(* the characters they work on in the code.  Every other lexeme (a table,  *)
(* a column, a keyword, a base name) stands for a run of characters that   *)
(* holds no part of a grain suffix.                                        *)
(***************************************************************************)
EXTENDS Integers, Sequences, FiniteSets, TLC

(***************************************************************************)
(* Bounds of the model.                                                    *)
(***************************************************************************)
\* a query names at most this many metrics, dimensions and filters in total
MaxRequested == 3
\* a field name given to _parse_date_trunc is made of at most this many pieces
MaxPieces == 3
\* RateLimiter.call is entered by at most this many tasks
MaxCalls == 2
\* the wrapped call of one task fails at most this many times
MaxAttempts == 2
\* the clock is followed for this many ticks
MaxTicks == 8

(***************************************************************************)
(* Python str and list primitives on sequences of lexemes.                 *)
(***************************************************************************)
Min(S) == CHOOSE m \in S : \A n \in S : m <= n

\* sep.join(items)
RECURSIVE JoinText(_, _)
JoinText(items, sep) ==
    IF items = <<>> THEN <<>>
    ELSE IF Len(items) = 1 THEN items[1]
    ELSE items[1] \o sep \o JoinText(Tail(items), sep)

\* x in s
Contains(s, x) == \E k \in 1..Len(s) : s[k] = x

\* s.find(x, start): 0-based index of the first x at or after start, else -1
PyFind(s, x, start) ==
    LET hits == {k \in start..(Len(s) - 1) : s[k + 1] = x}
    IN  IF hits = {} THEN -1 ELSE Min(hits)

\* s[a:b] for a >= 0; a negative b counts from the end
PySlice(s, a, b) ==
    LET hi == IF b < 0 THEN (IF Len(s) + b < 0 THEN 0 ELSE Len(s) + b)
              ELSE (IF b > Len(s) THEN Len(s) ELSE b)
    IN  SubSeq(s, a + 1, hi)

\* s.strip(): leading and trailing blanks removed
RECURSIVE Strip(_)
Strip(s) ==
    IF s = <<>> THEN s
    ELSE IF Head(s) = " " THEN Strip(Tail(s))
    ELSE IF s[Len(s)] = " " THEN Strip(SubSeq(s, 1, Len(s) - 1))
    ELSE s

\* s.endswith(suffix)
EndsWith(s, suffix) ==
    /\ Len(s) >= Len(suffix)
    /\ SubSeq(s, Len(s) - Len(suffix) + 1, Len(s)) = suffix

\* s.replace(old, ""): every non-overlapping occurrence of old, left to right
RECURSIVE RemoveAll(_, _)
RemoveAll(s, old) ==
    IF Len(s) < Len(old) THEN s
    ELSE IF SubSeq(s, 1, Len(old)) = old
         THEN RemoveAll(SubSeq(s, Len(old) + 1, Len(s)), old)
         ELSE <<Head(s)>> \o RemoveAll(Tail(s), old)

(***************************************************************************)
(* _parse_date_trunc                                                       *)
(***************************************************************************)
SufWeek  == <<"_", "_", "w", "e", "e", "k">>
SufMonth == <<"_", "_", "m", "o", "n", "t", "h">>
SufYear  == <<"_", "_", "y", "e", "a", "r">>

\* the grain None
NoGrain == "None"

\* _parse_date_trunc(field_name) -> (base_field_name, date_grain)
ParseDateTrunc(field_name) ==
    IF EndsWith(field_name, SufWeek)
    THEN <<RemoveAll(field_name, SufWeek), "WEEK">>
    ELSE IF EndsWith(field_name, SufMonth)
    THEN <<RemoveAll(field_name, SufMonth), "MONTH">>
    ELSE IF EndsWith(field_name, SufYear)
    THEN <<RemoveAll(field_name, SufYear), "YEAR">>
    ELSE <<field_name, NoGrain>>

(***************************************************************************)
(* _get_definition and _find_join_definition                               *)
(***************************************************************************)
\* the result None of a lookup
NoDef == [name |-> <<>>, sql |-> <<>>, table |-> ""]
NoJoin == [one |-> "", many |-> "", join |-> <<>>]

\* _get_definition(name, definitions): the first definition of that name
RECURSIVE GetDefinition(_, _)
GetDefinition(name, definitions) ==
    IF definitions = <<>> THEN NoDef
    ELSE IF Head(definitions).name = name THEN Head(definitions)
    ELSE GetDefinition(name, Tail(definitions))

\* _find_join_definition(table_a, table_b, join_defs)
RECURSIVE FindJoinDefinition(_, _, _)
FindJoinDefinition(table_a, table_b, join_defs) ==
    IF join_defs = <<>> THEN NoJoin
    ELSE IF Head(join_defs).one = table_a /\ Head(join_defs).many = table_b
         THEN Head(join_defs)
    ELSE IF Head(join_defs).one = table_b /\ Head(join_defs).many = table_a
         THEN Head(join_defs)
    ELSE FindJoinDefinition(table_a, table_b, Tail(join_defs))

(***************************************************************************)
(* The inputs: semantic layers and queries.                                *)
(***************************************************************************)
\* a field name without its suffix, as text
Name(s) == <<s>>

SeqsUpTo(S, n) == UNION {[1..k -> S] : k \in 0..n}

\* The names a layer defines hold no grain suffix: the suffix is how a request
\* asks for a truncation.
\* semantic_layer["metrics"]; "status" is also the name of a dimension,
\* "discount" is a bare column and "net_revenue" a call inside a call
LayerMetrics ==
    << [name |-> Name("total_revenue"),
        sql |-> <<"SUM", "(", "sale_price", ")">>, table |-> "order_items"],
       [name |-> Name("order_count"),
        sql |-> <<"COUNT", "(", "*", ")">>, table |-> "orders"],
       [name |-> Name("status"),
        sql |-> <<"COUNT", "(", "status", ")">>, table |-> "orders"],
       [name |-> Name("discount"), sql |-> <<"discount">>, table |-> "orders"],
       [name |-> Name("net_revenue"),
        sql |-> <<"SUM", "(", " ", "ABS", "(", "sale_price", ")", ")">>,
        table |-> "order_items"] >>

\* semantic_layer["dimensions"]
LayerDimensions ==
    << [name |-> Name("order_id"), sql |-> <<"order_id">>, table |-> "order_items"],
       [name |-> Name("status"), sql |-> <<"status">>, table |-> "orders"],
       [name |-> Name("ordered_date"), sql |-> <<"created_at">>, table |-> "orders"],
       [name |-> Name("country"), sql |-> <<"country">>, table |-> "users"] >>

JoinOrders ==
    [one |-> "orders", many |-> "order_items",
     join |-> <<"order_items.order_id = orders.order_id">>]
JoinUsers ==
    [one |-> "users", many |-> "orders", join |-> <<"orders.user_id = users.id">>]
JoinBuyers ==
    [one |-> "users", many |-> "order_items",
     join |-> <<"order_items.user_id = users.id">>]
JoinOrdersAgain ==
    [one |-> "order_items", many |-> "orders",
     join |-> <<"orders.order_id = order_items.order_id">>]

\* semantic_layer["joins"]: absent, a star around orders, every pair of tables
JoinLists ==
    { <<>>,
      <<JoinOrders, JoinUsers>>,
      <<JoinOrders, JoinUsers, JoinBuyers, JoinOrdersAgain>> }

SemanticLayers ==
    { [metrics |-> LayerMetrics, dimensions |-> LayerDimensions, joins |-> j] :
        j \in JoinLists }

\* query["metrics"] entries; "profit" has no definition
MetricsPool ==
    { Name("total_revenue"), Name("order_count"), Name("discount"),
      Name("net_revenue"), Name("profit") }

\* query["dimensions"] entries; "region" has no definition
DimensionsPool ==
    { Name("order_id"),
      Name("ordered_date") \o SufWeek,
      Name("country"),
      Name("ordered_date") \o SufYear \o SufYear,
      Name("region") }

\* a filter value: a Python str, int or bool
StrValue(s) == [type |-> "str", value |-> s]
IntValue(n) == [type |-> "int", value |-> n]
BoolValue(b) == [type |-> "bool", value |-> b]

\* query["filters"] entries; "region" is neither a dimension nor a metric
FiltersPool ==
    { [field |-> Name("status"), operator |-> "=", value |-> StrValue("Complete")],
      [field |-> Name("country"), operator |-> "=", value |-> StrValue("US")],
      [field |-> Name("status"), operator |-> "!=", value |-> BoolValue(FALSE)],
      [field |-> Name("ordered_date") \o SufMonth, operator |-> ">=",
       value |-> StrValue("2024-01-01")],
      [field |-> Name("total_revenue"), operator |-> ">", value |-> IntValue(1000)],
      [field |-> Name("region"), operator |-> "=", value |-> StrValue("EU")] }

\* the pieces a field name is made of, for _parse_date_trunc alone
Pieces == { Name("a"), <<"_">>, SufWeek, SufMonth, SufYear }

FieldNames == { JoinText(ps, <<>>) : ps \in SeqsUpTo(Pieces, MaxPieces) }

(***************************************************************************)
(* The state: the arguments and the locals of generate_sql_query, the      *)
(* position in it, and the outcome of an earlier call on the same          *)
(* arguments.                                                              *)
(***************************************************************************)
VARIABLES
    query,                  \* the argument query
    semantic_layer,         \* the argument semantic_layer
    call,                   \* 1 in the first call on these arguments, 2 in the second
    first,                  \* the outcome of the first call
    pc,                     \* the position in generate_sql_query
    i,                      \* the position of the running for loop, from 1
    metrics_definitions,
    dimensions_definitions,
    tables_used,
    multiple_tables,
    select_clause,
    group_by_terms,
    tables,                 \* list(tables_used)
    from_clause,
    where_clauses,
    having_clauses,
    sql,                    \* the returned text
    error,                  \* the message of the raised ValueError
    field_name,             \* the argument of a lone call of _parse_date_trunc
    parsed,                 \* and what it returned
    timings,                \* RateLimiter.timings: key |-> the dict object it refers to
    pacing,                 \* the dict objects of timings: object |-> its items
    last_slowdown,          \* RateLimiter.last_slowdown
    now,                    \* time.monotonic(), in microseconds since construction
    tasks,                  \* the tasks inside RateLimiter.call
    cache,                  \* JSONCacheAsync.cache: key |-> stored value
    requests                \* the calls of generate

vars ==
    << query, semantic_layer, call, first, pc, i, metrics_definitions,
       dimensions_definitions, tables_used, multiple_tables, select_clause,
       group_by_terms, tables, from_clause, where_clauses, having_clauses, sql,
       error, field_name, parsed, timings, pacing, last_slowdown, now, tasks,
       cache, requests >>

args == << query, semantic_layer, call, first >>
limiter == << timings, pacing, last_slowdown, now, tasks >>
lone == << field_name, parsed, limiter, cache, requests >>

\* no text: nothing returned, nothing raised
NoText == <<>>
NoOutcome == [sql |-> NoText, error |-> NoText]
Outcome == [sql |-> sql, error |-> error]

\* query.get("metrics", []) and its like: a missing key reads as the empty list
Queries ==
    UNION { UNION { { [metrics |-> m, dimensions |-> d, filters |-> f] :
                        f \in SeqsUpTo(FiltersPool, MaxRequested - Len(m) - Len(d)) } :
                    d \in SeqsUpTo(DimensionsPool, MaxRequested - Len(m)) } :
            m \in SeqsUpTo(MetricsPool, MaxRequested) }

\* the locals at the entry of generate_sql_query
Entry ==
    /\ pc = "metrics"
    /\ i = 1
    /\ metrics_definitions = <<>>
    /\ dimensions_definitions = <<>>
    /\ tables_used = {}
    /\ multiple_tables = FALSE
    /\ select_clause = NoText
    /\ group_by_terms = <<>>
    /\ tables = <<>>
    /\ from_clause = NoText
    /\ where_clauses = <<>>
    /\ having_clauses = <<>>
    /\ sql = NoText
    /\ error = NoText

(***************************************************************************)
(* The collaborators at construction.  Times are whole microseconds, so    *)
(* that 0.001 s is 1000; a product with 1.01 or 0.999 is rounded down to   *)
(* the microsecond.  A dict object is named by a number: two keys of       *)
(* timings that hold the same number refer to one and the same dict.       *)
(***************************************************************************)
\* "dt_min": 0.001, "dt_max": 0.05, and the 0.01 of slow_down
DtMinDefault == 1000
DtMaxDefault == 50000
SlowdownGap == 10000

\* the clock is read at ticks one slow-down gap apart
TickStep == SlowdownGap

\* Python None, where a str may stand
None == "None"

\* f.__qualname__ of the coroutine functions handed to RateLimiter.call
Functions == { "run_generate_query", "run_other_query" }

\* the arguments of generate, and what the LLM answers
ModelsToTry == << "gpt-4o", "llama3-70b-8192", "o1-mini" >>
Models == { "gpt-4o", "o1-mini", "gpt-3.5-turbo" }
\* if "gpt" in model: the models that call_llm sends out
GptModels == { "gpt-4o", "gpt-3.5-turbo" }
Questions == { "q1", "q2" }
Outputs == { "{a}", "{b}" }

Calls == 1..MaxCalls

IdleTask == [pc |-> "idle", fn |-> None, wake |-> 0, failures |-> 0]
IdleRequest ==
    [pc |-> "idle", question |-> None, model |-> None, cache_key |-> None,
     cached_result |-> None, status_code |-> 0, output |-> None]

\* RateLimiter.__init__, JSONCacheAsync.__init__ with no cache file, and no
\* task started
Constructed ==
    /\ timings = [k \in {"default"} |-> 1]
    /\ pacing = << [dt_min |-> DtMinDefault, dt_max |-> DtMaxDefault,
                    last_request |-> 0] >>
    /\ last_slowdown = 0
    /\ now = 0
    /\ tasks = [c \in Calls |-> IdleTask]
    /\ cache = << >>
    /\ requests = [c \in Calls |-> IdleRequest]

Init ==
    /\ query \in Queries
    /\ semantic_layer \in SemanticLayers
    /\ call = 1
    /\ first = NoOutcome
    /\ Entry
    /\ field_name = NoText
    /\ parsed = <<NoText, NoGrain>>
    /\ Constructed

\* the messages of the errors, lines 76-78, 87-89, 144-146, 160-162, 215-217
UnknownMetricMessage(metric_name) ==
    <<"Metric definition for '">> \o metric_name
    \o <<"' not found in semantic layer.">>
UnknownDimensionMessage(dim_name) ==
    <<"Dimension definition for '">> \o dim_name
    \o <<"' not found in semantic layer.">>
NoTablesMessage ==
    <<"No tables identified from metrics or dimensions. Unable to build query.">>
MissingJoinMessage(primary_table, other_table) ==
    <<"No join definition found between ", primary_table, " and ", other_table, ".">>
UnknownFilterFieldMessage(filter_field) ==
    <<"Filter field '">> \o filter_field
    \o <<"' not found in dimensions or metrics.">>

\* raise ValueError(message)
Raise(message) ==
    /\ error' = message
    /\ pc' = "raised"

(***************************************************************************)
(* Lines 72-91: the definitions and the tables of the requested metrics    *)
(* and dimensions.                                                         *)
(***************************************************************************)
CollectMetric ==
    /\ pc = "metrics"
    /\ i <= Len(query.metrics)
    /\ LET metric_name == query.metrics[i]
           metric_def == GetDefinition(metric_name, semantic_layer.metrics)
       IN  /\ metric_def # NoDef
           /\ metrics_definitions' = Append(metrics_definitions, metric_def)
           /\ tables_used' = tables_used \cup {metric_def.table}
    /\ i' = i + 1
    /\ UNCHANGED << args, lone, pc, dimensions_definitions, multiple_tables,
                    select_clause, group_by_terms, tables, from_clause,
                    where_clauses, having_clauses, sql, error >>

RaiseUnknownMetric ==
    /\ pc = "metrics"
    /\ i <= Len(query.metrics)
    /\ LET metric_name == query.metrics[i]
           metric_def == GetDefinition(metric_name, semantic_layer.metrics)
       IN  /\ metric_def = NoDef
           /\ Raise(UnknownMetricMessage(metric_name))
    /\ UNCHANGED << args, lone, i, metrics_definitions, dimensions_definitions,
                    tables_used, multiple_tables, select_clause, group_by_terms,
                    tables, from_clause, where_clauses, having_clauses, sql >>

MetricsCollected ==
    /\ pc = "metrics"
    /\ i > Len(query.metrics)
    /\ pc' = "dimensions"
    /\ i' = 1
    /\ UNCHANGED << args, lone, metrics_definitions, dimensions_definitions,
                    tables_used, multiple_tables, select_clause, group_by_terms,
                    tables, from_clause, where_clauses, having_clauses, sql, error >>

CollectDimension ==
    /\ pc = "dimensions"
    /\ i <= Len(query.dimensions)
    /\ LET dim_name == query.dimensions[i]
           base_dim_name == ParseDateTrunc(dim_name)[1]
           date_grain == ParseDateTrunc(dim_name)[2]
           dim_def == GetDefinition(base_dim_name, semantic_layer.dimensions)
       IN  /\ dim_def # NoDef
           /\ dimensions_definitions' =
                Append(dimensions_definitions,
                       [def |-> dim_def, grain |-> date_grain, name |-> dim_name])
           /\ tables_used' = tables_used \cup {dim_def.table}
    /\ i' = i + 1
    /\ UNCHANGED << args, lone, pc, metrics_definitions, multiple_tables,
                    select_clause, group_by_terms, tables, from_clause,
                    where_clauses, having_clauses, sql, error >>

RaiseUnknownDimension ==
    /\ pc = "dimensions"
    /\ i <= Len(query.dimensions)
    /\ LET dim_name == query.dimensions[i]
           base_dim_name == ParseDateTrunc(dim_name)[1]
           dim_def == GetDefinition(base_dim_name, semantic_layer.dimensions)
       IN  /\ dim_def = NoDef
           /\ Raise(UnknownDimensionMessage(dim_name))
    /\ UNCHANGED << args, lone, i, metrics_definitions, dimensions_definitions,
                    tables_used, multiple_tables, select_clause, group_by_terms,
                    tables, from_clause, where_clauses, having_clauses, sql >>

DimensionsCollected ==
    /\ pc = "dimensions"
    /\ i > Len(query.dimensions)
    /\ pc' = "select"
    /\ UNCHANGED << args, lone, i, metrics_definitions, dimensions_definitions,
                    tables_used, multiple_tables, select_clause, group_by_terms,
                    tables, from_clause, where_clauses, having_clauses, sql, error >>

(***************************************************************************)
(* Lines 93-138: the SELECT items and the GROUP BY terms.                  *)
(***************************************************************************)
\* the expression of a metric qualified as a whole, function call or not
MetricSqlExprQualifiedWhole(metric_def, multiple) ==
    IF multiple THEN <<metric_def.table, ".">> \o metric_def.sql ELSE metric_def.sql

\* lines 99-115: the expression of a metric, its column qualified if asked
MetricSqlExpr(metric_def, multiple) ==
    LET sql_expr == metric_def.sql IN
    IF Contains(sql_expr, "(") /\ Contains(sql_expr, ")")
    THEN LET func_start == PyFind(sql_expr, "(", 0)
             func_end == PyFind(sql_expr, ")", func_start)
             function == Strip(PySlice(sql_expr, 0, func_start))
             column == Strip(PySlice(sql_expr, func_start + 1, func_end))
         IN  function \o <<"(">>
             \o (IF multiple THEN <<metric_def.table, ".">> \o column ELSE column)
             \o <<")">>
    ELSE IF multiple THEN <<metric_def.table, ".">> \o sql_expr ELSE sql_expr

\* the expression of a dimension truncated if asked, never qualified
DimensionSqlExprUnqualified(dim_def, date_grain, multiple) ==
    IF date_grain # NoGrain
    THEN <<"DATE_TRUNC", "(">> \o dim_def.sql \o <<", ", date_grain, ")">>
    ELSE dim_def.sql

\* lines 122-134: the expression of a dimension, qualified and truncated if asked
DimensionSqlExpr(dim_def, date_grain, multiple) ==
    LET sql_expr == IF multiple THEN <<dim_def.table, ".">> \o dim_def.sql
                    ELSE dim_def.sql
    IN  IF date_grain # NoGrain
        THEN <<"DATE_TRUNC", "(">> \o sql_expr \o <<", ", date_grain, ")">>
        ELSE sql_expr

\* lines 97-116
MetricsSql(defs, multiple) ==
    [k \in 1..Len(defs) |->
        MetricSqlExpr(defs[k], multiple) \o <<" AS ">> \o defs[k].name]

\* lines 119-134, the select items
DimensionsSql(defs, multiple) ==
    [k \in 1..Len(defs) |->
        DimensionSqlExpr(defs[k].def, defs[k].grain, multiple)
        \o <<" AS ">> \o defs[k].name]

\* a mutant: the append of line 131 is left out, a truncated dimension is not grouped by
GroupByTermsUntruncatedOnly(defs, multiple) ==
    LET plain == SelectSeq(defs, LAMBDA d : d.grain = NoGrain)
    IN  [k \in 1..Len(plain) |->
            DimensionSqlExpr(plain[k].def, plain[k].grain, multiple)]

\* lines 119-134, the group by terms
GroupByTerms(defs, multiple) ==
    [k \in 1..Len(defs) |-> DimensionSqlExpr(defs[k].def, defs[k].grain, multiple)]

\* the fallback whatever the items
SelectClauseStarAlways(select_items) == <<"*">>

\* line 138: the items joined, or "*" when there is none
SelectClause(select_items) ==
    IF select_items # <<>> THEN JoinText(select_items, <<", ">>) ELSE <<"*">>

BuildSelect ==
    /\ pc = "select"
    /\ LET multiple == Cardinality(tables_used) > 1
           select_items == MetricsSql(metrics_definitions, multiple)
                           \o DimensionsSql(dimensions_definitions, multiple)
       IN  /\ multiple_tables' = multiple
           /\ group_by_terms' = GroupByTerms(dimensions_definitions, multiple)
           /\ select_clause' = SelectClause(select_items)
    /\ pc' = "from"
    /\ UNCHANGED << args, lone, i, metrics_definitions, dimensions_definitions,
                    tables_used, tables, from_clause, where_clauses,
                    having_clauses, sql, error >>

(***************************************************************************)
(* Lines 140-163: the FROM clause and its JOIN lines.                      *)
(***************************************************************************)
\* list(s) of a set s of str: the order is that of the hash table, which the
\* hash seed of the process decides
ListOfSet(s) ==
    { o \in [1..Cardinality(s) -> s] :
        \A a, b \in 1..Cardinality(s) : a # b => o[a] # o[b] }

\* lines 155-158
JoinDefFor(primary_table, other_table, joins) ==
    LET join_def == FindJoinDefinition(primary_table, other_table, joins)
    IN  IF join_def = NoJoin
        THEN FindJoinDefinition(other_table, primary_table, joins)
        ELSE join_def

\* lines 154-163: the JOIN lines, up to the first table that has no join
RECURSIVE JoinLoop(_, _, _)
JoinLoop(primary_table, others, joins) ==
    IF others = <<>> THEN [text |-> NoText, missing |-> ""]
    ELSE LET other_table == Head(others)
             join_def == JoinDefFor(primary_table, other_table, joins)
             rest == JoinLoop(primary_table, Tail(others), joins)
         IN  IF join_def = NoJoin THEN [text |-> NoText, missing |-> other_table]
             ELSE [text |-> <<"\n", "JOIN ", other_table, " ON ">>
                            \o join_def.join \o rest.text,
                   missing |-> rest.missing]

\* a mutant: a single table counts as none
NoTablesIdentifiedOffByOne(used) == Cardinality(used) <= 1

\* line 143: not tables_used
NoTablesIdentified(used) == used = {}

RaiseNoTables ==
    /\ pc = "from"
    /\ NoTablesIdentified(tables_used)
    /\ Raise(NoTablesMessage)
    /\ UNCHANGED << args, lone, i, metrics_definitions, dimensions_definitions,
                    tables_used, multiple_tables, select_clause, group_by_terms,
                    tables, from_clause, where_clauses, having_clauses, sql >>

FromSingleTable ==
    /\ pc = "from"
    /\ Cardinality(tables_used) = 1
    /\ \E order \in ListOfSet(tables_used) :
          /\ tables' = order
          /\ from_clause' = <<"FROM ", order[1]>>
    /\ pc' = "filters"
    /\ i' = 1
    /\ UNCHANGED << args, lone, metrics_definitions, dimensions_definitions,
                    tables_used, multiple_tables, select_clause, group_by_terms,
                    where_clauses, having_clauses, sql, error >>

FromJoinedTables ==
    /\ pc = "from"
    /\ Cardinality(tables_used) > 1
    /\ \E order \in ListOfSet(tables_used) :
          LET primary_table == order[1]
              loop == JoinLoop(primary_table, Tail(order), semantic_layer.joins)
          IN  /\ loop.missing = ""
              /\ tables' = order
              /\ from_clause' = <<"FROM ", primary_table>> \o loop.text
    /\ pc' = "filters"
    /\ i' = 1
    /\ UNCHANGED << args, lone, metrics_definitions, dimensions_definitions,
                    tables_used, multiple_tables, select_clause, group_by_terms,
                    where_clauses, having_clauses, sql, error >>

RaiseMissingJoin ==
    /\ pc = "from"
    /\ Cardinality(tables_used) > 1
    /\ \E order \in ListOfSet(tables_used) :
          LET primary_table == order[1]
              loop == JoinLoop(primary_table, Tail(order), semantic_layer.joins)
          IN  /\ loop.missing # ""
              /\ tables' = order
              /\ Raise(MissingJoinMessage(primary_table, loop.missing))
    /\ UNCHANGED << args, lone, i, metrics_definitions, dimensions_definitions,
                    tables_used, multiple_tables, select_clause, group_by_terms,
                    from_clause, where_clauses, having_clauses, sql >>

(***************************************************************************)
(* Lines 165-217: the WHERE and HAVING predicates of the filters.          *)
(***************************************************************************)
\* str(n) of an int: its decimal digits, after "-" below zero
RECURSIVE IntStr(_)
IntStr(n) ==
    LET digit(d) == <<"0", "1", "2", "3", "4", "5", "6", "7", "8", "9">>[d + 1]
    IN  IF n < 0 THEN <<"-">> \o IntStr(0 - n)
        ELSE IF n < 10 THEN <<digit(n)>>
        ELSE IntStr(n \div 10) \o <<digit(n % 10)>>

\* str(value) of a value that is no str
PyStr(value) ==
    IF value.type = "bool"
    THEN (IF value.value THEN <<"True">> ELSE <<"False">>)
    ELSE IntStr(value.value)

\* every value in single quotes, a str or not
ValueExprAlwaysQuoted(value) ==
    IF value.type = "str" THEN <<"'", value.value, "'">>
    ELSE <<"'">> \o PyStr(value) \o <<"'">>

\* lines 187-190 and 208-211: a str in single quotes, anything else by str()
ValueExpr(value) ==
    IF value.type = "str" THEN <<"'", value.value, "'">> ELSE PyStr(value)

\* lines 181-191: the predicate of a filter on a dimension
DimensionFilterExpression(dim_def, date_grain, filt, multiple) ==
    LET qualified == IF multiple THEN <<dim_def.table, ".">> \o dim_def.sql
                     ELSE dim_def.sql
        sql_expr == IF date_grain # NoGrain
                    THEN <<"DATE_TRUNC", "(">> \o qualified \o <<", ", date_grain, ")">>
                    ELSE qualified
    IN  sql_expr \o <<" ", filt.operator, " ">> \o ValueExpr(filt.value)

\* lines 194-212: the predicate of a filter on a metric
MetricFilterExpression(metric_def, filt, multiple) ==
    LET sql_expr == metric_def.sql
        rebuilt ==
            IF Contains(sql_expr, "(") /\ Contains(sql_expr, ")")
            THEN LET func_start == PyFind(sql_expr, "(", 0)
                     func_end == PyFind(sql_expr, ")", func_start)
                     function == Strip(PySlice(sql_expr, 0, func_start))
                     column == Strip(PySlice(sql_expr, func_start + 1, func_end))
                 IN  function \o <<"(">>
                     \o (IF multiple THEN <<metric_def.table, ".">> \o column
                         ELSE column)
                     \o <<")">>
            ELSE IF multiple THEN <<metric_def.table, ".">> \o sql_expr
            ELSE sql_expr
    IN  rebuilt \o <<" ", filt.operator, " ">> \o ValueExpr(filt.value)

\* a mutant: the metric branch is tried first, a dimension is seen only when
\* no metric has the name
FilterDimDefAfterMetric(filt) ==
    IF GetDefinition(ParseDateTrunc(filt.field)[1], semantic_layer.metrics) # NoDef
    THEN NoDef
    ELSE GetDefinition(ParseDateTrunc(filt.field)[1], semantic_layer.dimensions)

\* lines 174-178: what the field of a filter is looked up as
FilterDimDef(filt) ==
    GetDefinition(ParseDateTrunc(filt.field)[1], semantic_layer.dimensions)
FilterMetricDef(filt) ==
    GetDefinition(ParseDateTrunc(filt.field)[1], semantic_layer.metrics)

\* lines 180-192
FilterOnDimension ==
    /\ pc = "filters"
    /\ i <= Len(query.filters)
    /\ LET filt == query.filters[i]
           date_grain == ParseDateTrunc(filt.field)[2]
           dim_def == FilterDimDef(filt)
       IN  /\ dim_def # NoDef
           /\ where_clauses' =
                Append(where_clauses,
                       DimensionFilterExpression(dim_def, date_grain, filt,
                                                 multiple_tables))
    /\ i' = i + 1
    /\ UNCHANGED << args, lone, pc, metrics_definitions, dimensions_definitions,
                    tables_used, multiple_tables, select_clause, group_by_terms,
                    tables, from_clause, having_clauses, sql, error >>

\* lines 193-213
FilterOnMetric ==
    /\ pc = "filters"
    /\ i <= Len(query.filters)
    /\ LET filt == query.filters[i]
           dim_def == FilterDimDef(filt)
           metric_def == FilterMetricDef(filt)
       IN  /\ dim_def = NoDef
           /\ metric_def # NoDef
           /\ having_clauses' =
                Append(having_clauses,
                       MetricFilterExpression(metric_def, filt, multiple_tables))
    /\ i' = i + 1
    /\ UNCHANGED << args, lone, pc, metrics_definitions, dimensions_definitions,
                    tables_used, multiple_tables, select_clause, group_by_terms,
                    tables, from_clause, where_clauses, sql, error >>

\* lines 214-217
RaiseUnknownFilterField ==
    /\ pc = "filters"
    /\ i <= Len(query.filters)
    /\ LET filt == query.filters[i]
       IN  /\ FilterDimDef(filt) = NoDef
           /\ FilterMetricDef(filt) = NoDef
           /\ Raise(UnknownFilterFieldMessage(filt.field))
    /\ UNCHANGED << args, lone, i, metrics_definitions, dimensions_definitions,
                    tables_used, multiple_tables, select_clause, group_by_terms,
                    tables, from_clause, where_clauses, having_clauses, sql >>

(***************************************************************************)
(* Lines 219-231: the clauses put together, and the return.                *)
(***************************************************************************)
\* a mutant: the HAVING line is put before the GROUP BY line
AssembleSqlHavingFirst(select, from, where, group_by, having) ==
    <<"SELECT ">> \o select \o <<"\n">> \o from
    \o (IF where # <<>>
        THEN <<"\n", "WHERE ">> \o JoinText(where, <<" AND ">>) ELSE <<>>)
    \o (IF having # <<>>
        THEN <<"\n", "HAVING ">> \o JoinText(having, <<" AND ">>) ELSE <<>>)
    \o (IF group_by # <<>>
        THEN <<"\n", "GROUP BY ">> \o JoinText(group_by, <<", ">>) ELSE <<>>)

\* lines 220-229
AssembleSql(select, from, where, group_by, having) ==
    <<"SELECT ">> \o select \o <<"\n">> \o from
    \o (IF where # <<>>
        THEN <<"\n", "WHERE ">> \o JoinText(where, <<" AND ">>) ELSE <<>>)
    \o (IF group_by # <<>>
        THEN <<"\n", "GROUP BY ">> \o JoinText(group_by, <<", ">>) ELSE <<>>)
    \o (IF having # <<>>
        THEN <<"\n", "HAVING ">> \o JoinText(having, <<" AND ">>) ELSE <<>>)

Assemble ==
    /\ pc = "filters"
    /\ i > Len(query.filters)
    /\ sql' = AssembleSql(select_clause, from_clause, where_clauses,
                          group_by_terms, having_clauses)
    /\ pc' = "done"
    /\ UNCHANGED << args, lone, i, metrics_definitions, dimensions_definitions,
                    tables_used, multiple_tables, select_clause, group_by_terms,
                    tables, from_clause, where_clauses, having_clauses, error >>

\* generate_sql_query has returned or raised
Finished == pc \in {"done", "raised"}

\* the caller keeps the outcome and calls again with the same arguments
CallAgain ==
    /\ Finished
    /\ call = 1
    /\ first' = Outcome
    /\ call' = 2
    /\ pc' = "metrics"
    /\ i' = 1
    /\ metrics_definitions' = <<>>
    /\ dimensions_definitions' = <<>>
    /\ tables_used' = {}
    /\ multiple_tables' = FALSE
    /\ select_clause' = NoText
    /\ group_by_terms' = <<>>
    /\ tables' = <<>>
    /\ from_clause' = NoText
    /\ where_clauses' = <<>>
    /\ having_clauses' = <<>>
    /\ sql' = NoText
    /\ error' = NoText
    /\ UNCHANGED << query, semantic_layer, lone >>

Next ==
    \/ CollectMetric
    \/ RaiseUnknownMetric
    \/ MetricsCollected
    \/ CollectDimension
    \/ RaiseUnknownDimension
    \/ DimensionsCollected
    \/ BuildSelect
    \/ RaiseNoTables
    \/ FromSingleTable
    \/ FromJoinedTables
    \/ RaiseMissingJoin
    \/ FilterOnDimension
    \/ FilterOnMetric
    \/ RaiseUnknownFilterField
    \/ Assemble
    \/ CallAgain

Spec == Init /\ [][Next]_vars

(***************************************************************************)
(* _parse_date_trunc called alone, on field names of every shape.          *)
(***************************************************************************)
InitParse ==
    /\ field_name \in FieldNames
    /\ parsed = <<NoText, NoGrain>>
    /\ query = [metrics |-> <<>>, dimensions |-> <<>>, filters |-> <<>>]
    /\ semantic_layer \in {l \in SemanticLayers : l.joins = <<>>}
    /\ call = 1
    /\ first = NoOutcome
    /\ Entry
    /\ Constructed

ParseField ==
    /\ pc = "metrics"
    /\ parsed' = ParseDateTrunc(field_name)
    /\ pc' = "parsed"
    /\ UNCHANGED << args, i, metrics_definitions, dimensions_definitions,
                    tables_used, multiple_tables, select_clause, group_by_terms,
                    tables, from_clause, where_clauses, having_clauses, sql,
                    error, field_name, limiter, cache, requests >>

NextParse == ParseField

SpecParse == InitParse /\ [][NextParse]_vars

(***************************************************************************)
(* RateLimiter.  One event loop runs the tasks: a task runs from one await *)
(* that suspends it to the next, and nothing else runs in between.  The    *)
(* awaits that suspend are asyncio.sleep and asyncio.wait_for; the lock of *)
(* slow_down and speed_up is released before any await, so it is always    *)
(* free when a task asks for it.                                           *)
(***************************************************************************)
compiler ==
    << args, pc, i, metrics_definitions, dimensions_definitions, tables_used,
       multiple_tables, select_clause, group_by_terms, tables, from_clause,
       where_clauses, having_clauses, sql, error, field_name, parsed >>

\* the compiler at rest, while its collaborators run
InitCollaborators ==
    /\ query = [metrics |-> <<>>, dimensions |-> <<>>, filters |-> <<>>]
    /\ semantic_layer = [metrics |-> <<>>, dimensions |-> <<>>, joins |-> <<>>]
    /\ call = 1
    /\ first = NoOutcome
    /\ Entry
    /\ field_name = NoText
    /\ parsed = <<NoText, NoGrain>>
    /\ Constructed

\* RateLimiter.dt_mid, of the dict d
dt_mid(d) == (d.dt_min + d.dt_max) \div 2

\* if fn not in self.timings: self.timings[fn] = self.timings["default"]
\* (the same dict object, not a copy of it)
WithFunction(tm, fn) ==
    IF fn \in DOMAIN tm THEN tm
    ELSE [k \in DOMAIN tm \cup {fn} |-> IF k = fn THEN tm["default"] ELSE tm[k]]

\* one turn of the while loop of call, at time t, on the dict numbered d of
\* the dicts p: the request goes out, or the task sleeps dt_min
Pace(p, d, t) ==
    IF t - p[d].last_request > dt_mid(p[d])
    THEN [pacing |-> [p EXCEPT ![d].last_request = t], pc |-> "awaiting", wake |-> t]
    ELSE [pacing |-> p, pc |-> "sleeping", wake |-> t + p[d].dt_min]

\* RateLimiter.slow_down on the dict numbered d, at time t
slow_down(p, d, t, last) ==
    IF t - last > SlowdownGap
    THEN [pacing |-> [p EXCEPT ![d].dt_min = dt_mid(p[d]),
                               ![d].dt_max = (p[d].dt_max * 101) \div 100],
          last_slowdown |-> t]
    ELSE [pacing |-> p, last_slowdown |-> last]

\* RateLimiter.speed_up on the dict numbered d
speed_up(p, d) ==
    [p EXCEPT ![d].dt_max = dt_mid(p[d]),
              ![d].dt_min = (p[d].dt_min * 999) \div 1000]

\* lines 60-68 of call, for the task c and the function fn, from the timings
\* tm and the dicts p: up to the first await that suspends
EnterCall(c, fn, tm, p, failures) ==
    LET paced == Pace(p, WithFunction(tm, fn)[fn], now)
    IN  /\ timings' = WithFunction(tm, fn)
        /\ pacing' = paced.pacing
        /\ tasks' = [tasks EXCEPT ![c] = [pc |-> paced.pc, fn |-> fn,
                                          wake |-> paced.wake,
                                          failures |-> failures]]

\* a task calls rate_limiter.call(f, ...)
StartCall(c, fn) ==
    /\ tasks[c].pc = "idle"
    /\ requests[c].pc = "idle"
    /\ EnterCall(c, fn, timings, pacing, 0)
    /\ UNCHANGED << compiler, last_slowdown, now, cache, requests >>

\* asyncio.sleep(dt_min) is over: the while loop turns again
WakeFromSleep(c) ==
    /\ tasks[c].pc = "sleeping"
    /\ now >= tasks[c].wake
    /\ EnterCall(c, tasks[c].fn, timings, pacing, tasks[c].failures)
    /\ UNCHANGED << compiler, last_slowdown, now, cache, requests >>

\* the wrapped call returns within REQUEST_TIMEOUT: speed_up, return res
CallSucceeds(c) ==
    /\ tasks[c].pc = "awaiting"
    /\ requests[c].pc = "idle"
    /\ pacing' = speed_up(pacing, timings[tasks[c].fn])
    /\ tasks' = [tasks EXCEPT ![c].pc = "returned"]
    /\ UNCHANGED << compiler, timings, last_slowdown, now, cache, requests >>

\* the wrapped call raises, or wait_for raises TimeoutError: slow_down, then
\* call calls itself and is at its line 60 again
CallFails(c) ==
    /\ tasks[c].pc = "awaiting"
    /\ tasks[c].failures < MaxAttempts
    /\ LET slowed == slow_down(pacing, timings[tasks[c].fn], now, last_slowdown)
       IN  /\ last_slowdown' = slowed.last_slowdown
           /\ EnterCall(c, tasks[c].fn, timings, slowed.pacing,
                        tasks[c].failures + 1)
    /\ UNCHANGED << compiler, now, cache, requests >>

\* time passes
Tick ==
    /\ now < MaxTicks * TickStep
    /\ now' = now + TickStep
    /\ UNCHANGED << compiler, timings, pacing, last_slowdown, tasks, cache,
                    requests >>

NextLimiter ==
    \/ \E c \in Calls, fn \in Functions : StartCall(c, fn)
    \/ \E c \in Calls : WakeFromSleep(c)
    \/ \E c \in Calls : CallSucceeds(c)
    \/ \E c \in Calls : CallFails(c)
    \/ Tick

SpecLimiter == InitCollaborators /\ [][NextLimiter]_vars

(***************************************************************************)
(* generate and its cache.  cache.get and cache.set never suspend (the     *)
(* lock of set is released before any await), so generate runs from its    *)
(* entry to rate_limiter.call in one piece, and from the return of the     *)
(* wrapped call to its own return in one piece.  The file that write_cache *)
(* writes is not followed.                                                 *)
(***************************************************************************)
\* f"{model}__{question}"
Key(model, question) == model \o "__" \o question

\* if cached_result:
Truthy(value) == value \notin {None, "", "{}"}

\* JSONCacheAsync.get: dict.get, None for a missing key
CacheGet(ch, key) == IF key \in DOMAIN ch THEN ch[key] ELSE None

\* JSONCacheAsync.set
CacheSet(ch, key, value) ==
    [k \in DOMAIN ch \cup {key} |-> IF k = key THEN value ELSE ch[k]]

\* the for loop over models_to_try from its k-th candidate: cache_key and
\* cached_result as the loop leaves them
RECURSIVE Lookup(_, _, _)
Lookup(ch, question, k) ==
    LET cache_key == Key(ModelsToTry[k], question)
        cached_result == CacheGet(ch, cache_key)
    IN  IF Truthy(cached_result) \/ k = Len(ModelsToTry)
        THEN [cache_key |-> cache_key, cached_result |-> cached_result]
        ELSE Lookup(ch, question, k + 1)

\* generate(question_id, question, model) up to its return on a hit, or up to
\* the first await that suspends inside rate_limiter.call
GenerateStart(c, question, model) ==
    /\ tasks[c].pc = "idle"
    /\ requests[c].pc = "idle"
    /\ LET found == Lookup(cache, question, 1)
       IN  IF Truthy(found.cached_result)
           THEN /\ requests' = [requests EXCEPT ![c] =
                        [pc |-> "returned", question |-> question, model |-> model,
                         cache_key |-> found.cache_key,
                         cached_result |-> found.cached_result,
                         status_code |-> 200, output |-> found.cached_result]]
                /\ UNCHANGED << timings, pacing, tasks >>
           ELSE /\ requests' = [requests EXCEPT ![c] =
                        [pc |-> "calling", question |-> question, model |-> model,
                         cache_key |-> found.cache_key,
                         cached_result |-> found.cached_result,
                         status_code |-> 0, output |-> None]]
                /\ EnterCall(c, "run_generate_query", timings, pacing, 0)
    /\ UNCHANGED << compiler, last_slowdown, now, cache >>

\* run_generate_query returns (status_code, output), a 200 for a model that
\* call_llm sends out and only for such a one: speed_up, return res, and
\* generate stores a 200 and returns
GenerateCallReturns(c, status_code, output) ==
    /\ tasks[c].pc = "awaiting"
    /\ requests[c].pc = "calling"
    /\ status_code = 200 => requests[c].model \in GptModels
    /\ pacing' = speed_up(pacing, timings[tasks[c].fn])
    /\ tasks' = [tasks EXCEPT ![c].pc = "returned"]
    /\ IF status_code = 200
       THEN /\ cache' = CacheSet(cache, Key(requests[c].model, requests[c].question),
                                 output)
            /\ requests' = [requests EXCEPT ![c].pc = "returned",
                                            ![c].status_code = 200,
                                            ![c].output = output]
       ELSE /\ cache' = cache
            /\ requests' = [requests EXCEPT ![c].pc = "returned",
                                            ![c].status_code = 500,
                                            ![c].output = ""]
    /\ UNCHANGED << compiler, timings, last_slowdown, now >>

NextGenerate ==
    \/ \E c \in Calls, question \in Questions, model \in Models :
          GenerateStart(c, question, model)
    \/ \E c \in Calls : WakeFromSleep(c)
    \/ \E c \in Calls : CallFails(c)
    \/ \E c \in Calls, output \in Outputs : GenerateCallReturns(c, 200, output)
    \/ \E c \in Calls : GenerateCallReturns(c, 500, None)
    \/ Tick

SpecGenerate == InitCollaborators /\ [][NextGenerate]_vars

(***************************************************************************)
(* Reading a returned text back: its lines, their keywords, their parts.   *)
(***************************************************************************)
\* text.split(sep) for a one-lexeme separator
RECURSIVE SplitOn(_, _)
SplitOn(text, sep) ==
    LET at == PyFind(text, sep, 0)
    IN  IF at = -1 THEN <<text>>
        ELSE <<PySlice(text, 0, at)>> \o SplitOn(PySlice(text, at + 1, Len(text)), sep)

SqlLines(text) == SplitOn(text, "\n")

\* the lines of text that start with keyword
LinesOf(text, keyword) ==
    SelectSeq(SqlLines(text), LAMBDA line : line # <<>> /\ Head(line) = keyword)

HasLine(text, keyword) == LinesOf(text, keyword) # <<>>

\* the table of the FROM line and the tables of the JOIN lines, in their order
FromTable(text) == LinesOf(text, "FROM ")[1][2]
JoinTables(text) ==
    [k \in 1..Len(LinesOf(text, "JOIN ")) |-> LinesOf(text, "JOIN ")[k][2]]
Range(f) == {f[k] : k \in DOMAIN f}

\* the predicates of the WHERE or HAVING line of text, none when it has no such line
Predicates(text, keyword) ==
    IF HasLine(text, keyword)
    THEN Range(SplitOn(Tail(LinesOf(text, keyword)[1]), " AND "))
    ELSE {}

\* the names that qualify a column in a line: each lexeme followed by "."
Qualifiers(line) == {line[k] : k \in {n \in 1..(Len(line) - 1) : line[n + 1] = "."}}

\* a field name with only its trailing grain suffix removed, and that grain
TrailingGrain(name) ==
    IF EndsWith(name, SufWeek)
    THEN <<SubSeq(name, 1, Len(name) - Len(SufWeek)), "WEEK">>
    ELSE IF EndsWith(name, SufMonth)
    THEN <<SubSeq(name, 1, Len(name) - Len(SufMonth)), "MONTH">>
    ELSE IF EndsWith(name, SufYear)
    THEN <<SubSeq(name, 1, Len(name) - Len(SufYear)), "YEAR">>
    ELSE <<name, NoGrain>>

\* the tables of the resolved metrics, then of the resolved dimensions, each
\* once, in the order of first appearance
RECURSIVE FirstSeen(_)
FirstSeen(ts) ==
    IF ts = <<>> THEN <<>>
    ELSE LET before == FirstSeen(SubSeq(ts, 1, Len(ts) - 1))
         IN  IF ts[Len(ts)] \in Range(before) THEN before
             ELSE Append(before, ts[Len(ts)])

FirstAppearance ==
    FirstSeen([k \in 1..Len(metrics_definitions) |-> metrics_definitions[k].table]
              \o [k \in 1..Len(dimensions_definitions) |->
                    dimensions_definitions[k].def.table])

Returned == pc = "done"
Raised == pc = "raised"

(***************************************************************************)
(* The claims.                                                             *)
(***************************************************************************)
\* C1 Determinism: when both calls on the same (query, semantic_layer) return,
\* the second call returns the very text the first call returned.
C1_Determinism ==
    (call = 2 /\ Returned /\ first.sql # NoText) => sql = first.sql

\* C2 Referential closure: in a returned text, every table name that qualifies
\* a column of the SELECT, WHERE, GROUP BY or HAVING line is the table of the
\* FROM line or of a JOIN line.
C2_ReferentialClosure ==
    Returned =>
        \A keyword \in {"SELECT ", "WHERE ", "GROUP BY ", "HAVING "} :
            \A k \in 1..Len(LinesOf(sql, keyword)) :
                Qualifiers(LinesOf(sql, keyword)[k])
                    \subseteq ({FromTable(sql)} \cup Range(JoinTables(sql)))

\* what the field of the filter, its trailing grain suffix removed, resolves to:
\* dimensions are looked up first, then metrics
ResolvesToDimension(filt) ==
    GetDefinition(TrailingGrain(filt.field)[1], semantic_layer.dimensions) # NoDef
ResolvesToMetric(filt) ==
    /\ ~ResolvesToDimension(filt)
    /\ GetDefinition(TrailingGrain(filt.field)[1], semantic_layer.metrics) # NoDef

\* the predicate of a filter, by what its field resolves to
PredicateOf(filt) ==
    IF ResolvesToDimension(filt)
    THEN DimensionFilterExpression(
             GetDefinition(TrailingGrain(filt.field)[1], semantic_layer.dimensions),
             TrailingGrain(filt.field)[2], filt, multiple_tables)
    ELSE MetricFilterExpression(
             GetDefinition(TrailingGrain(filt.field)[1], semantic_layer.metrics),
             filt, multiple_tables)

\* C3 Filter routing: in a returned text, the predicate of every filter whose
\* field resolves to a dimension is in the WHERE line and not in the HAVING
\* line, and the predicate of every filter whose field resolves to a metric is
\* in the HAVING line and not in the WHERE line.
C3_FilterRouting ==
    Returned =>
        \A k \in 1..Len(query.filters) :
            LET filt == query.filters[k] IN
            /\ ResolvesToDimension(filt) =>
                /\ PredicateOf(filt) \in Predicates(sql, "WHERE ")
                /\ PredicateOf(filt) \notin Predicates(sql, "HAVING ")
            /\ ResolvesToMetric(filt) =>
                /\ PredicateOf(filt) \in Predicates(sql, "HAVING ")
                /\ PredicateOf(filt) \notin Predicates(sql, "WHERE ")

\* C3 witness: a returned text for a query with a filter on a name that is a
\* dimension and a metric at once, and a filter on a metric.
C3_Witness ==
    /\ Returned
    /\ \E k \in 1..Len(query.filters) :
          /\ ResolvesToDimension(query.filters[k])
          /\ GetDefinition(query.filters[k].field, semantic_layer.metrics) # NoDef
    /\ \E k \in 1..Len(query.filters) : ResolvesToMetric(query.filters[k])
    /\ HasLine(sql, "WHERE ")
    /\ HasLine(sql, "HAVING ")

\* C4 Grouping: a returned text has a GROUP BY line if and only if the query
\* requested at least one dimension.
C4_Grouping ==
    Returned => (HasLine(sql, "GROUP BY ") <=> query.dimensions # <<>>)

\* C4 witness: a returned text with a GROUP BY line for a query with
\* dimensions, no metric and no filter on a metric.
C4_Witness ==
    /\ Returned
    /\ query.dimensions # <<>>
    /\ query.metrics = <<>>
    /\ HasLine(sql, "GROUP BY ")
    /\ ~HasLine(sql, "HAVING ")

\* C5 Anchor selection: in a returned text of a query on more than one table,
\* the table of the FROM line is the first table in first-appearance order and
\* the JOIN lines list the other tables in first-appearance order.
C5_AnchorSelection ==
    (Returned /\ Len(FirstAppearance) > 1) =>
        /\ FromTable(sql) = FirstAppearance[1]
        /\ JoinTables(sql) = Tail(FirstAppearance)

\* a join edge between the two tables, in either role
HasEdge(table_a, table_b) ==
    \E k \in 1..Len(semantic_layer.joins) :
        {semantic_layer.joins[k].one, semantic_layer.joins[k].many} = {table_a, table_b}
        /\ semantic_layer.joins[k].one # semantic_layer.joins[k].many

\* every requested metric and dimension was resolved
AllResolved ==
    /\ Len(metrics_definitions) = Len(query.metrics)
    /\ Len(dimensions_definitions) = Len(query.dimensions)

\* the missing-join error, whichever tables it names
IsMissingJoinError(message) ==
    message # NoText /\ Head(message) = "No join definition found between "

\* C6 Missing join: when the resolved metrics and dimensions are on more than
\* one table and some table other than the anchor (the first table in
\* first-appearance order) has no join edge with the anchor, the call raises
\* the missing-join error naming the anchor and such a table, and returns no
\* text.
C6_MissingJoin ==
    (Finished /\ AllResolved /\ Len(FirstAppearance) > 1) =>
        LET anchor == FirstAppearance[1]
            unjoined == {t \in Range(Tail(FirstAppearance)) : ~HasEdge(anchor, t)}
        IN  unjoined # {} =>
                /\ sql = NoText
                /\ \E t \in unjoined :
                      error \in {MissingJoinMessage(anchor, t),
                                 MissingJoinMessage(t, anchor)}

\* C6, relative to the table the join planning itself put first: whichever
\* order list(tables_used) gave, a table with no edge to the first table of
\* that order makes the call raise the missing-join error for that first table
\* and the first such table, and the error is raised in no other case.
C6_RelativeToPrimaryTable ==
    (Finished /\ AllResolved /\ Cardinality(tables_used) > 1) =>
        LET primary_table == tables[1]
            unjoined == {t \in Range(Tail(tables)) : ~HasEdge(primary_table, t)}
        IN  /\ unjoined # {} =>
                /\ sql = NoText
                /\ \E t \in unjoined : error = MissingJoinMessage(primary_table, t)
            /\ unjoined = {} => ~IsMissingJoinError(error)

\* C7 No tables: the call raises the no-tables error if and only if the query
\* requests no metric and no dimension, whatever its filters.
C7_NoTables ==
    Finished =>
        (error = NoTablesMessage <=>
            (query.metrics = <<>> /\ query.dimensions = <<>>))

\* C7 witness: the no-tables error for a query that has filters only.
C7_Witness ==
    /\ Raised
    /\ error = NoTablesMessage
    /\ query.filters # <<>>

\* the requested elements that resolve to nothing, a dimension and the field
\* of a filter looked up without their trailing grain suffix
UnknownMetrics ==
    {k \in 1..Len(query.metrics) :
        GetDefinition(query.metrics[k], semantic_layer.metrics) = NoDef}
UnknownDimensions ==
    {k \in 1..Len(query.dimensions) :
        GetDefinition(TrailingGrain(query.dimensions[k])[1],
                      semantic_layer.dimensions) = NoDef}
UnknownFilterFields ==
    {k \in 1..Len(query.filters) :
        /\ ~ResolvesToDimension(query.filters[k])
        /\ ~ResolvesToMetric(query.filters[k])}

\* an error of the join planning, which runs before the filters are looked at
IsJoinPlanningError(message) ==
    message = NoTablesMessage \/ IsMissingJoinError(message)

\* C8 Fail-fast resolution: a call on a query with an unknown metric, an unknown
\* dimension or an unknown filter field returns no text and raises the error of
\* the first of them in processing order: metrics, then dimensions, then (after
\* the join planning, whose error comes first) filters.
C8_FailFast ==
    Finished =>
        /\ UnknownMetrics # {} =>
            /\ sql = NoText
            /\ error = UnknownMetricMessage(query.metrics[Min(UnknownMetrics)])
        /\ (UnknownMetrics = {} /\ UnknownDimensions # {}) =>
            /\ sql = NoText
            /\ error = UnknownDimensionMessage(query.dimensions[Min(UnknownDimensions)])
        /\ (UnknownMetrics = {} /\ UnknownDimensions = {} /\ UnknownFilterFields # {}) =>
            /\ sql = NoText
            /\ \/ IsJoinPlanningError(error)
               \/ error = UnknownFilterFieldMessage(
                              query.filters[Min(UnknownFilterFields)].field)

\* C8, with every name stripped the way _parse_date_trunc strips it: the
\* first unknown element in processing order decides the error.
C8_RelativeToParsedNames ==
    LET unknown_dimensions ==
            {k \in 1..Len(query.dimensions) :
                GetDefinition(ParseDateTrunc(query.dimensions[k])[1],
                              semantic_layer.dimensions) = NoDef}
    IN  Finished =>
        /\ UnknownMetrics # {} =>
            /\ sql = NoText
            /\ error = UnknownMetricMessage(query.metrics[Min(UnknownMetrics)])
        /\ (UnknownMetrics = {} /\ unknown_dimensions # {}) =>
            /\ sql = NoText
            /\ error = UnknownDimensionMessage(query.dimensions[Min(unknown_dimensions)])
        /\ (UnknownMetrics = {} /\ unknown_dimensions = {}
                /\ UnknownFilterFields # {}) =>
            /\ sql = NoText
            /\ \/ IsJoinPlanningError(error)
               \/ error = UnknownFilterFieldMessage(
                              query.filters[Min(UnknownFilterFields)].field)

\* the place of a clause in the fixed order; 0 for what is no clause
ClauseRank(keyword) ==
    CASE keyword = "SELECT " -> 1
      [] keyword = "FROM " -> 2
      [] keyword = "JOIN " -> 3
      [] keyword = "WHERE " -> 4
      [] keyword = "GROUP BY " -> 5
      [] keyword = "HAVING " -> 6
      [] OTHER -> 0

\* C9 Clause order: a returned text is a SELECT line, a FROM line, any number
\* of JOIN lines, then at most one WHERE line, at most one GROUP BY line and at
\* most one HAVING line, in this order, and every line has something after its
\* keyword.
C9_ClauseOrder ==
    Returned =>
        LET lines == SqlLines(sql)
            rank(k) == IF lines[k] = <<>> THEN 0 ELSE ClauseRank(Head(lines[k]))
        IN  /\ Len(lines) >= 2
            /\ rank(1) = 1
            /\ rank(2) = 2
            /\ \A k \in 1..Len(lines) : Len(lines[k]) > 1
            /\ \A k \in 3..Len(lines) : rank(k) >= 3
            /\ \A j, k \in 3..Len(lines) :
                  j < k => /\ rank(j) <= rank(k)
                           /\ rank(j) = rank(k) => rank(j) = 3

\* C9 witness: a returned text with a WHERE, a GROUP BY and a HAVING line.
C9_Witness ==
    /\ Returned
    /\ HasLine(sql, "WHERE ")
    /\ HasLine(sql, "GROUP BY ")
    /\ HasLine(sql, "HAVING ")

\* C10 Grain parsing: _parse_date_trunc returns the name and no grain when the
\* name ends in no grain suffix, and otherwise the grain of the trailing suffix
\* and the name with only that trailing suffix removed.
C10_GrainParsing ==
    pc = "parsed" => parsed = TrailingGrain(field_name)

(***************************************************************************)
(* RateLimiter: what a step of a task does to the pacing state.            *)
(***************************************************************************)
\* the pacing state (dt_min, dt_max, last_request) read through the key k
PacingOf(tm, p, k) == p[tm[k]]

\* C11 Per-function pacing: a step of a task inside call, slow_down or
\* speed_up for one function leaves the pacing state read through every other
\* key of timings, "default" among them, as it was.
C11_PerFunctionPacing ==
    [][\A c \in Calls :
          tasks'[c] # tasks[c] =>
              \A k \in DOMAIN timings \ {tasks'[c].fn} :
                  PacingOf(timings', pacing', k) = PacingOf(timings, pacing, k)]_vars

\* C12 Bounded retry: a call whose wrapped call has failed MaxAttempts times has
\* stopped retrying and has raised a terminal error to its caller; so the claim
\* read with any budget of attempts up to MaxAttempts.
C12_BoundedRetry ==
    \A c \in Calls : tasks[c].failures = MaxAttempts => tasks[c].pc = "raised"

\* C13 Cache keying: a call of generate that returns a cached result found it
\* under the key of its own model and question, and a call made when the cache
\* holds a result under the key of its model and question returns that result.
C13_CacheKeying ==
    [][\A c \in Calls :
          requests[c].pc = "idle" /\ requests'[c].pc # "idle" =>
              LET request == requests'[c]
                  key == Key(request.model, request.question)
              IN  /\ request.pc = "returned" => request.cache_key = key
                  /\ key \in DOMAIN cache =>
                        /\ request.pc = "returned"
                        /\ request.output = cache[key]]_vars

(***************************************************************************)
(* The SELECT items of a returned text.                                    *)
(***************************************************************************)
\* the pieces of the SELECT line between its ", "
SelectPieces(text) == SplitOn(Tail(LinesOf(text, "SELECT ")[1]), ", ")

\* a text holds a function call: a "(" with a ")" after it
HasCall(e) == \E j, k \in 1..Len(e) : j < k /\ e[j] = "(" /\ e[k] = ")"

\* the place of the first "(" of e, of the first ")" after it, and of the ")"
\* that closes it
FirstOpen(e) == Min({k \in 1..Len(e) : e[k] = "("})
FirstClose(e) == Min({k \in (FirstOpen(e) + 1)..Len(e) : e[k] = ")"})
MatchingClose(e) ==
    Min({k \in (FirstOpen(e) + 1)..Len(e) :
            Cardinality({n \in FirstOpen(e)..k : e[n] = "("})
                = Cardinality({n \in FirstOpen(e)..k : e[n] = ")"})})

\* FUNC(arg), or FUNC(table.arg) when qualified, of an expression e whose
\* argument ends before the place Close(e); e itself, or table.e, when e
\* holds no call.  Blanks around FUNC and around arg are dropped.
Projection(e, table, qualified, Close(_)) ==
    LET prefix == IF qualified THEN <<table, ".">> ELSE <<>>
    IN  IF HasCall(e)
        THEN Strip(SubSeq(e, 1, FirstOpen(e) - 1)) \o <<"(">> \o prefix
             \o Strip(SubSeq(e, FirstOpen(e) + 1, Close(e) - 1)) \o <<")">>
        ELSE prefix \o e

\* the k-th SELECT item of a returned text is the projection of the k-th
\* requested metric, AS the requested name
MetricItems(Close(_)) ==
    Returned =>
        \A k \in 1..Len(query.metrics) :
            LET def == GetDefinition(query.metrics[k], semantic_layer.metrics)
            IN  SelectPieces(sql)[k]
                    = Projection(def.sql, def.table, HasLine(sql, "JOIN "), Close)
                      \o <<" AS ">> \o query.metrics[k]

RECURSIVE Items(_)
Items(pieces) ==
    IF pieces = <<>> THEN <<>>
    ELSE IF Head(pieces) # <<>> /\ Head(Head(pieces)) = "DATE_TRUNC" /\ Len(pieces) > 1
    THEN <<pieces[1] \o <<", ">> \o pieces[2]>> \o Items(Tail(Tail(pieces)))
    ELSE <<Head(pieces)>> \o Items(Tail(pieces))

SelectItems(text) == Items(SelectPieces(text))
GroupByItems(text) ==
    IF HasLine(text, "GROUP BY ")
    THEN Items(SplitOn(Tail(LinesOf(text, "GROUP BY ")[1]), ", "))
    ELSE <<>>

\* the expression of the k-th requested dimension as the claim has it: the
\* expression of its definition, after "table." in a multi-table text, inside
\* DATE_TRUNC(..., GRAIN) when the requested name ends in a grain suffix
ClaimedDimensionExpr(k) ==
    LET def == dimensions_definitions[k].def
        grain == TrailingGrain(query.dimensions[k])[2]
        expr == IF HasLine(sql, "JOIN ") THEN <<def.table, ".">> \o def.sql
                ELSE def.sql
    IN  IF grain # NoGrain
        THEN <<"DATE_TRUNC", "(">> \o expr \o <<", ", grain, ")">>
        ELSE expr

\* the alias of the k-th requested dimension as the claim has it
ClaimedDimensionAlias(k) ==
    IF TrailingGrain(query.dimensions[k])[2] # NoGrain
    THEN query.dimensions[k]
    ELSE TrailingGrain(query.dimensions[k])[1]

\* C15 Dimension projection and grouping: in a returned text, the SELECT item of
\* the k-th requested dimension (after the items of the metrics) is
\* "<expr> AS <alias>" and the k-th GROUP BY term is <expr>, with <expr> the
\* qualified, truncated expression of the dimension and <alias> the requested
\* name with its suffix when it has a grain and the base name otherwise.
C15_DimensionProjection ==
    Returned =>
        /\ Len(GroupByItems(sql)) = Len(query.dimensions)
        /\ \A k \in 1..Len(query.dimensions) :
              /\ SelectItems(sql)[Len(query.metrics) + k]
                     = ClaimedDimensionExpr(k) \o <<" AS ">> \o ClaimedDimensionAlias(k)
              /\ GroupByItems(sql)[k] = ClaimedDimensionExpr(k)

\* C15 witness: a returned multi-table text with a metric, a dimension with a
\* grain and a dimension without one.
C15_Witness ==
    /\ Returned
    /\ HasLine(sql, "JOIN ")
    /\ query.metrics # <<>>
    /\ \E j, k \in 1..Len(query.dimensions) :
          /\ TrailingGrain(query.dimensions[j])[2] # NoGrain
          /\ TrailingGrain(query.dimensions[k])[2] = NoGrain

\* the first edge of the join list whose endpoints are the two tables, in
\* either role
FirstEdge(table_a, table_b) ==
    semantic_layer.joins[
        Min({k \in 1..Len(semantic_layer.joins) :
                {semantic_layer.joins[k].one, semantic_layer.joins[k].many}
                    = {table_a, table_b}})]

\* the JOIN lines of a returned text around the table anchor: one line
\* "JOIN <table> ON <predicate>" for each other table of the query, with the
\* predicate of the first edge between that table and the anchor; none when
\* the query is on one table
JoinLinesAround(anchor) ==
    LET lines == LinesOf(sql, "JOIN ")
        others == Range(FirstAppearance) \ {anchor}
    IN  /\ Len(lines) = Cardinality(others)
        /\ {lines[k][2] : k \in 1..Len(lines)} = others
        /\ \A k \in 1..Len(lines) :
              /\ HasEdge(lines[k][2], anchor)
              /\ lines[k] = <<"JOIN ", lines[k][2], " ON ">>
                            \o FirstEdge(lines[k][2], anchor).join

\* C16 Join emission: a returned multi-table text has exactly one JOIN line for
\* each table other than the anchor (the first table in first-appearance
\* order), "JOIN <table> ON <predicate>" with the text of the first edge between
\* that table and the anchor, and a returned single-table text has no JOIN line.
C16_JoinEmission ==
    Returned => JoinLinesAround(FirstAppearance[1])

\* C16, relative to the table of the FROM line: whichever table
\* list(tables_used) put first, the JOIN lines are those of the other tables,
\* each with the first edge between it and that table.
C16_RelativeToFromTable ==
    Returned => JoinLinesAround(FromTable(sql))

(***************************************************************************)
(* The predicates of a returned text: "<expr> <operator> <value>".         *)
(***************************************************************************)
\* the predicates of the line of a keyword, in their order
PredicateList(text, keyword) ==
    IF HasLine(text, keyword)
    THEN SplitOn(Tail(LinesOf(text, keyword)[1]), " AND ")
    ELSE <<>>

\* the place of the blank before the value of a predicate: its last blank
LastBlank(predicate) ==
    CHOOSE k \in 1..Len(predicate) :
        /\ predicate[k] = " "
        /\ \A n \in (k + 1)..Len(predicate) : predicate[n] # " "

ValuePart(predicate) ==
    SubSeq(predicate, LastBlank(predicate) + 1, Len(predicate))
OperatorPart(predicate) ==
    SubSeq(predicate, LastBlank(predicate) - 2, LastBlank(predicate))
ExprPart(predicate) == SubSeq(predicate, 1, LastBlank(predicate) - 3)

\* the number a decimal literal stands for
DecimalDigits == <<"0", "1", "2", "3", "4", "5", "6", "7", "8", "9">>
RECURSIVE DecimalValue(_)
DecimalValue(text) ==
    IF text = <<>> THEN 0
    ELSE IF Head(text) = "-" THEN 0 - DecimalValue(Tail(text))
    ELSE 10 * DecimalValue(SubSeq(text, 1, Len(text) - 1))
         + (CHOOSE d \in 0..9 : DecimalDigits[d + 1] = text[Len(text)])

\* text is the value as the claim has it rendered
RendersValue(text, value) ==
    IF value.type = "str" THEN text = <<"'", value.value, "'">>
    ELSE IF value.type = "bool"
    THEN text = (IF value.value THEN <<"True">> ELSE <<"False">>)
    ELSE /\ text # <<>>
         /\ \A k \in 1..Len(text) :
               text[k] \in Range(DecimalDigits) \/ (k = 1 /\ text[k] = "-")
         /\ DecimalValue(text) = value.value

\* the expression a filter is about: the qualified, truncated expression of its
\* dimension, or the projection of its metric
FilterExpr(filt) ==
    LET qualified == HasLine(sql, "JOIN ")
        base == TrailingGrain(filt.field)[1]
        grain == TrailingGrain(filt.field)[2]
    IN  IF ResolvesToDimension(filt)
        THEN LET def == GetDefinition(base, semantic_layer.dimensions)
                 expr == IF qualified THEN <<def.table, ".">> \o def.sql ELSE def.sql
             IN  IF grain # NoGrain
                 THEN <<"DATE_TRUNC", "(">> \o expr \o <<", ", grain, ")">>
                 ELSE expr
        ELSE LET def == GetDefinition(base, semantic_layer.metrics)
             IN  Projection(def.sql, def.table, qualified, FirstClose)

\* the predicates of a line are those of the filters, one for one in their order
RendersFilters(predicates, filters) ==
    /\ Len(predicates) = Len(filters)
    /\ \A k \in 1..Len(filters) :
          /\ ExprPart(predicates[k]) = FilterExpr(filters[k])
          /\ OperatorPart(predicates[k]) = <<" ", filters[k].operator, " ">>
          /\ RendersValue(ValuePart(predicates[k]), filters[k].value)

\* C17 Filter rendering: in a returned text the WHERE line holds the predicates
\* of the filters on dimensions, in request order, joined by " AND ", and the
\* HAVING line those of the filters on metrics; each predicate is
\* "<expr> <operator> <value>", a str value in single quotes and unchanged, an
\* int or bool value as its literal text without quotes.
C17_FilterRendering ==
    Returned =>
        /\ RendersFilters(PredicateList(sql, "WHERE "),
                          SelectSeq(query.filters, ResolvesToDimension))
        /\ RendersFilters(PredicateList(sql, "HAVING "),
                          SelectSeq(query.filters, ResolvesToMetric))

\* C17 witness: a returned text whose WHERE line joins the predicate of a str
\* value and the predicate of a bool value.
C17_Witness ==
    /\ Returned
    /\ Len(PredicateList(sql, "WHERE ")) = 2
    /\ \E j, k \in 1..Len(query.filters) :
          /\ query.filters[j].value.type = "str"
          /\ query.filters[k].value.type = "bool"

\* C18 Explicit SELECT items: a returned text has one SELECT item for each
\* requested metric and dimension, at least one, and none of them is the "*" of
\* the fallback; a call that computed the "*" fallback, which is a call with no
\* metric and no dimension, ends in the no-tables error and returns no text.
C18_ExplicitSelectItems ==
    /\ Returned =>
          /\ Len(SelectItems(sql)) >= 1
          /\ Len(SelectItems(sql)) = Len(query.metrics) + Len(query.dimensions)
          /\ \A k \in 1..Len(SelectItems(sql)) : SelectItems(sql)[k] # <<"*">>
    /\ (Finished /\ (select_clause = <<"*">>
                     \/ (query.metrics = <<>> /\ query.dimensions = <<>>))) =>
          /\ sql = NoText
          /\ error = NoTablesMessage

\* C18 witness: a call that computed the "*" fallback and raised the no-tables
\* error.
C18_Witness ==
    /\ Raised
    /\ select_clause = <<"*">>
    /\ error = NoTablesMessage

====
